---------------------------- MODULE Spec2Model ----------------------------
(***************************************************************************)
(* Model of the Tg_search knowledge base: the change detector and sitemap  *)
(* crawler of scraper.py, and the dual index, the reciprocal-rank fusion   *)
(* and the build/update/startup entry points of rag_core.py and main.py.   *)
(*                                                                         *)
(* Specifications:                                                         *)
(*   SpecRRF    RAGCore._rrf_fusion applied to bounded input lists         *)
(*   SpecHash   HashManager.has_changed applied to a fingerprint map       *)
(*   SpecCrawl  parse_sitemap, one loop iteration per step                 *)
(*   SpecCrawlRuns SpecCrawl with the loop running on, for termination     *)
(*   Spec       startup, /restart, /update and the persisted stores        *)
(*   SpecAnswer RAGCore.get_answer on bounded retrieval results            *)
(*   SpecUpdates /update handlers running as tasks of one event loop       *)
(***************************************************************************)
EXTENDS Integers, Sequences, FiniteSets, TLC

VARIABLES
    \* --- SpecRRF
    rrfPc,        \* "off" | "in" | "out"
    rrfLists,     \* <<dense_docs, bm25_docs>>
    rrfK,         \* the k handed to _rrf_fusion
    rrfOut,       \* the list _rrf_fusion returned
    \* --- SpecHash
    hmHashes,     \* HashManager.hashes
    hmCall,       \* the last has_changed call and the one before it, last first
    \* --- SpecCrawl
    sitemap,      \* the <url> entries of the sitemap, in document order
    site,         \* what each page URL serves
    hashStore,    \* hash_storage.json
    crawl,        \* the locals of parse_sitemap
    \* --- Spec
    vectorDisk,   \* the saved FAISS store (VECTOR_DIR)
    bm25Disk,     \* bm25_corpus.jsonl
    rag,          \* dp["rag_system"]: the RAGCore instance, or none
    started,      \* main() has run
    faults,       \* a persisted store was lost or damaged from outside
    last,         \* the last operation and what it reported
    \* --- SpecAnswer
    ans,          \* a get_answer call: what it was given and what it returned
    \* --- SpecUpdates
    tasks         \* the /update handler tasks of the event loop

rrfVars == <<rrfPc, rrfLists, rrfK, rrfOut>>

hmVars == <<hmHashes, hmCall>>

crawlVars == <<sitemap, site, hashStore, crawl>>

kbVars == <<vectorDisk, bm25Disk, rag, started, faults, last>>

ansVars == <<ans>>

taskVars == <<tasks>>

vars == <<rrfVars, hmVars, crawlVars, kbVars, ansVars, taskVars>>

(***************************************************************************)
(* Generic helpers                                                         *)
(***************************************************************************)
Min(a, b) == IF a < b THEN a ELSE b

\* the one element of a singleton set
The(S) == CHOOSE x \in S : TRUE

Range(s) == {s[i] : i \in 1..Len(s)}

\* Python's s[:n] for n >= 0
Take(s, n) == SubSeq(s, 1, Min(n, Len(s)))

SeqsUpTo(S, n) == UNION {[1..m -> S] : m \in 0..n}

(***************************************************************************)
(* Documents handed to the fusion ranker                                   *)
(***************************************************************************)
\* rag_core.py:262  d.page_content[:50]
KeyLen == 50

\* rag_core.py:258
K == 60

\* a metadata dict without a "source" entry
NoSource == "<no source>"

Pad == [i \in 1..KeyLen |-> 0]

\* Two documents that agree on their first 50 characters and their source but
\* differ afterwards, one short document, one document without a source.
DocA == [page_content |-> Pad \o <<1>>, source |-> "u1"]
DocB == [page_content |-> Pad \o <<2>>, source |-> "u1"]
DocC == [page_content |-> <<3>>, source |-> "u2"]
DocD == [page_content |-> <<3>>, source |-> NoSource]

RrfDocs == {DocA, DocB, DocC, DocD}

\* bounds of the lists _dense_retrieve and _bm25_retrieve return, and of k
MaxDense == 2
MaxBm25 == 3
MaxK == 3

\* d.metadata.get("source", "")
MetaSource(d) == IF d.source = NoSource THEN "" ELSE d.source

FusionKey(d) == <<Take(d.page_content, KeyLen), MetaSource(d)>>

(***************************************************************************)
(* Scores are the exact rationals n / ScoreDen: ScoreDen is a common       *)
(* multiple of every K + rank + 1 a list position can give.                *)
(***************************************************************************)
RECURSIVE ProdTo(_)
ProdTo(n) == IF n = 0 THEN 1 ELSE (K + n) * ProdTo(n - 1)

MaxRank == IF MaxDense > MaxBm25 THEN MaxDense ELSE MaxBm25

ScoreDen == ProdTo(MaxRank)

\* 1.0 / (K + rank + 1), rank 0-based
RrfWeight(rank) == ScoreDen \div (K + rank + 1)

\* A dict as the sequence of its <<key, value>> items in insertion order.
DictKeys(dct) == {dct[i][1] : i \in 1..Len(dct)}

DictIndex(dct, key) == CHOOSE i \in 1..Len(dct) : dct[i][1] = key

DictLookup(dct, key, default) ==
    IF key \in DictKeys(dct) THEN dct[DictIndex(dct, key)][2] ELSE default

\* dct[key] = value: a new key goes last, an old key keeps its place
DictSet(dct, key, value) ==
    IF key \in DictKeys(dct)
    THEN [dct EXCEPT ![DictIndex(dct, key)] = <<key, value>>]
    ELSE Append(dct, <<key, value>>)

(***************************************************************************)
(* RAGCore._rrf_fusion                                                     *)
(***************************************************************************)
\* a scoring that overwrites the score of a key seen before
RECURSIVE ScoreDocsOverwrites(_, _, _)
ScoreDocsOverwrites(score, docs, rank) ==
    IF rank >= Len(docs) THEN score
    ELSE ScoreDocsOverwrites(DictSet(score, FusionKey(docs[rank + 1]), RrfWeight(rank)),
                             docs, rank + 1)

\* for rank, d in enumerate(docs): score[key] = score.get(key, 0) + weight
RECURSIVE ScoreDocs(_, _, _)
ScoreDocs(score, docs, rank) ==
    IF rank >= Len(docs) THEN score
    ELSE LET key == FusionKey(docs[rank + 1])
         IN  ScoreDocs(DictSet(score, key, DictLookup(score, key, 0) + RrfWeight(rank)),
                       docs, rank + 1)

\* for docs in lists: ...
RECURSIVE ScoreLists(_, _, _)
ScoreLists(score, lists, j) ==
    IF j > Len(lists) THEN score
    ELSE ScoreLists(ScoreDocs(score, lists[j], 0), lists, j + 1)

DocMapAddLastSeen(doc_map, d) == DictSet(doc_map, FusionKey(d), d)

\* if key not in doc_map: doc_map[key] = d
DocMapAdd(doc_map, d) ==
    IF FusionKey(d) \in DictKeys(doc_map) THEN doc_map
    ELSE DictSet(doc_map, FusionKey(d), d)

RECURSIVE DocMapDocs(_, _, _)
DocMapDocs(doc_map, docs, n) ==
    IF n >= Len(docs) THEN doc_map
    ELSE DocMapDocs(DocMapAdd(doc_map, docs[n + 1]), docs, n + 1)

RECURSIVE DocMapLists(_, _, _)
DocMapLists(doc_map, lists, j) ==
    IF j > Len(lists) THEN doc_map
    ELSE DocMapLists(DocMapDocs(doc_map, lists[j], 0), lists, j + 1)

InsertAt(s, p, x) == SubSeq(s, 1, p - 1) \o <<x>> \o SubSeq(s, p, Len(s))

\* a sort that puts an item before the earlier items of equal value
InsertDescUnstable(done, item) ==
    LET before == {p \in 1..Len(done) : done[p][2] <= item[2]}
    IN  IF before = {} THEN Append(done, item)
        ELSE InsertAt(done, CHOOSE p \in before : \A q \in before : p <= q, item)

\* insertion into a list sorted by descending value, behind every item whose
\* value is not smaller: the stable order of sorted(..., reverse=True)
InsertDesc(done, item) ==
    LET smaller == {p \in 1..Len(done) : done[p][2] < item[2]}
    IN  IF smaller = {} THEN Append(done, item)
        ELSE InsertAt(done, CHOOSE p \in smaller : \A q \in smaller : p <= q, item)

\* sorted(items, key=lambda x: x[1], reverse=True)
RECURSIVE SortedByValueDesc(_)
SortedByValueDesc(items) ==
    IF items = <<>> THEN <<>>
    ELSE The({InsertDesc(done, items[Len(items)]) :
                 done \in {SortedByValueDesc(SubSeq(items, 1, Len(items) - 1))}})

RrfFusion(lists, k) ==
    The({[n \in 1..Len(top) |-> DictLookup(doc_map, top[n][1], DocA)] :
         top \in {Take(SortedByValueDesc(ScoreLists(<<>>, lists, 1)), k)},
         doc_map \in {DocMapLists(<<>>, lists, 1)}})

(***************************************************************************)
(* SpecRRF: _rrf_fusion on every pair of bounded lists and every k         *)
(***************************************************************************)
RrfInputs == {<<d, b>> : d \in SeqsUpTo(RrfDocs, MaxDense), b \in SeqsUpTo(RrfDocs, MaxBm25)}

Fuse ==
    /\ rrfPc = "in"
    /\ rrfOut' = RrfFusion(rrfLists, rrfK)
    /\ rrfPc' = "out"
    /\ UNCHANGED <<rrfLists, rrfK, hmVars, ansVars, taskVars, crawlVars, kbVars>>

(***************************************************************************)
(* The site and its pages                                                  *)
(***************************************************************************)
URLS == {"u1", "u2", "u3"}

\* A page version stands for the HTML a URL serves. Version 1 cleans to a text
\* below the minimum length, version 2 to a text above it.
Versions == {"v1", "v2"}

\* body.get_text(separator=" ", strip=True) of a version
BodyText(v) == <<"text", v>>

\* hashlib.md5(content.encode('utf-8')).hexdigest()
Md5(content) == <<"md5", content>>

\* no fingerprint stored for a URL
None == <<"None">>

Digests == {Md5(BodyText(v)) : v \in Versions}

(***************************************************************************)
(* HashManager                                                             *)
(***************************************************************************)
\* the value has_changed returns
HasChangedRet(hashes, url, content) == hashes[url] # Md5(content)

HasChangedHashesNoStore(hashes, url, content) == hashes

\* self.hashes after has_changed
HasChangedHashes(hashes, url, content) ==
    IF hashes[url] = Md5(content) THEN hashes
    ELSE [hashes EXCEPT ![url] = Md5(content)]

NoHashes == [u \in URLS |-> None]

(***************************************************************************)
(* The cleaned text of a page: clean_html_to_text is imported from scraper *)
(* by rag_core.py and is not part of scraper.py, so the text it returns is *)
(* an input of the model, and a page version is known by the length of the *)
(* text it cleans to.                                                      *)
(***************************************************************************)
\* rag_core.py:152  len(text) < 200
MinTextLen == 200

CleanTextLen(v) == IF v = "v1" THEN 150 ELSE 400

HasChanged(url, content) ==
    /\ hmHashes' = HasChangedHashes(hmHashes, url, content)
    /\ hmCall' = <<[url |-> url, content |-> content,
                    ret |-> HasChangedRet(hmHashes, url, content),
                    before |-> hmHashes]>>
                  \o Take(hmCall, 1)
    /\ UNCHANGED <<rrfVars, ansVars, taskVars, crawlVars, kbVars>>

(***************************************************************************)
(* parse_sitemap                                                           *)
(***************************************************************************)
\* bound of the max_links handed to the crawl
MaxLinksBound == 2

\* a <loc> is its URL and its fragment; urldefrag drops the fragment
UrlDefrag(loc) == loc.base

\* what <priority> may hold; a priority is kept as ten times its float value
RawPriorities == {"absent", "0.1", "0.9", "abc"}

\* float(priority_tag.text) raises ValueError on a text that is no number
PriorityRaises(raw) == raw = "abc"

\* a parser that reads a missing <priority> as 0
ParsePriorityAbsentZero(raw) ==
    CASE raw = "absent" -> 0
      [] raw = "0.1" -> 1
      [] raw = "0.9" -> 9

\* float(priority_tag.text) if priority_tag and priority_tag.text else 0.5
ParsePriority(raw) ==
    CASE raw = "absent" -> 5
      [] raw = "0.1" -> 1
      [] raw = "0.9" -> 9

\* url_data.append({"url": ..., "priority": ...}) for every <url> entry
UrlData(entries) ==
    [n \in 1..Len(entries) |->
        [url |-> entries[n].loc, priority |-> ParsePriority(entries[n].priority)]]

\* sorted(url_data, key=lambda x: x['priority'], reverse=True)
UrlsToCheck(entries) ==
    LET data == UrlData(entries)
    IN  The({[n \in 1..Len(ranked) |-> ranked[n][1]] :
             ranked \in {SortedByValueDesc([n \in 1..Len(data) |->
                                               <<data[n], data[n].priority>>])}})

\* the locals of parse_sitemap when its while loop is reached, or when the
\* url_data loop (lines 122-128, outside any try) raised
CrawlStart(entries, max_links, stored) ==
    IF \E n \in 1..Len(entries) : PriorityRaises(entries[n].priority)
    THEN [pc |-> "raised", max_links |-> max_links, urls_to_check |-> <<>>,
          i |-> 0, links |-> 0, results |-> <<>>, hashes |-> stored, loaded |-> stored,
          visited |-> <<>>]
    ELSE [pc |-> "loop", max_links |-> max_links, urls_to_check |-> UrlsToCheck(entries),
          i |-> 0, links |-> 0, results |-> <<>>, hashes |-> stored, loaded |-> stored,
          visited |-> <<>>]

\* the loop condition
CrawlGoesOn(cs) == cs.links < cs.max_links /\ cs.i < Len(cs.urls_to_check)

\* an iteration that counts every fetched page against max_links
CrawlIterationCountsAll(cs, pages) ==
    LET page_url == UrlDefrag(cs.urls_to_check[cs.i + 1].url)
        served   == pages[page_url]
        next     == [cs EXCEPT !.i = cs.i + 1, !.visited = Append(cs.visited, page_url)]
    IN  IF served \in {"fail", "nobody"} THEN next
        ELSE IF HasChangedRet(cs.hashes, page_url, BodyText(served))
        THEN [next EXCEPT !.hashes = HasChangedHashes(cs.hashes, page_url, BodyText(served)),
                          !.results = Append(cs.results, [url |-> page_url, html_body |-> served]),
                          !.links = cs.links + 1]
        ELSE [next EXCEPT !.links = cs.links + 1]

\* an iteration whose continue leaves the loop body without advancing i
CrawlIterationContinueKeepsIndex(cs, pages) ==
    LET page_url == UrlDefrag(cs.urls_to_check[cs.i + 1].url)
        served   == pages[page_url]
        next     == [cs EXCEPT !.i = cs.i + 1, !.visited = Append(cs.visited, page_url)]
    IN  IF served = "nobody" THEN cs
        ELSE IF served = "fail" THEN next
        ELSE IF HasChangedRet(cs.hashes, page_url, BodyText(served))
        THEN [next EXCEPT !.hashes = HasChangedHashes(cs.hashes, page_url, BodyText(served)),
                          !.results = Append(cs.results, [url |-> page_url, html_body |-> served]),
                          !.links = cs.links + 1]
        ELSE next

\* one iteration of the while loop: a failed request and a page without
\* <body> fall through to the finally clause, which advances i
CrawlIteration(cs, pages) ==
    LET page_url == UrlDefrag(cs.urls_to_check[cs.i + 1].url)
        served   == pages[page_url]
        next     == [cs EXCEPT !.i = cs.i + 1, !.visited = Append(cs.visited, page_url)]
    IN  IF served \in {"fail", "nobody"} THEN next
        ELSE IF HasChangedRet(cs.hashes, page_url, BodyText(served))
        THEN [next EXCEPT !.hashes = HasChangedHashes(cs.hashes, page_url, BodyText(served)),
                          !.results = Append(cs.results, [url |-> page_url, html_body |-> served]),
                          !.links = cs.links + 1]
        ELSE next

\* the whole loop
RECURSIVE CrawlLoop(_, _)
CrawlLoop(cs, pages) ==
    IF CrawlGoesOn(cs)
    THEN The({CrawlLoop(next, pages) : next \in {CrawlIteration(cs, pages)}})
    ELSE cs

\* parse_sitemap as a function of what it reads: the list it returns, the
\* hash store it leaves and the exception it raises. sitemap_ok:
\* requests.get(sitemap_url) succeeded.
ParseSitemap(sitemap_ok, entries, pages, max_links, stored) ==
    IF ~sitemap_ok THEN [results |-> <<>>, store |-> stored, raised |-> ""]
    ELSE The({IF end.pc = "raised"
              THEN [results |-> <<>>, store |-> stored, raised |-> "ValueError"]
              ELSE [results |-> end.results, store |-> end.hashes, raised |-> ""] :
                 end \in {CrawlLoop(cs, pages) : cs \in {CrawlStart(entries, max_links, stored)}}})

Idle == [pc |-> "idle"]

\* the sitemaps of the model: u1, u2 and a third entry that is u3 or, under a
\* fragment, u1 again, each with any priority
Sitemaps ==
    {<<[loc |-> [base |-> "u1", frag |-> ""], priority |-> p1],
       [loc |-> [base |-> "u2", frag |-> ""], priority |-> p2],
       [loc |-> [base |-> b3, frag |-> "top"], priority |-> p3]>> :
        p1 \in RawPriorities, p2 \in RawPriorities, p3 \in RawPriorities, b3 \in {"u3", "u1"}}

Served == {"fail", "nobody"} \cup Versions

NoSite == [u \in URLS |-> "fail"]

\* lines 109-133: load the hashes, fetch and parse the sitemap, sort
CrawlBegin(max_links, sitemap_ok) ==
    /\ crawl.pc = "idle"
    /\ crawl' = IF sitemap_ok THEN CrawlStart(sitemap, max_links, hashStore)
                ELSE [CrawlStart(<<>>, max_links, hashStore) EXCEPT !.pc = "failed"]
    /\ UNCHANGED <<sitemap, site, hashStore, rrfVars, hmVars, ansVars, taskVars, kbVars>>

\* lines 135-167
CrawlIter ==
    /\ crawl.pc = "loop"
    /\ CrawlGoesOn(crawl)
    /\ crawl' = CrawlIteration(crawl, site)
    /\ UNCHANGED <<sitemap, site, hashStore, rrfVars, hmVars, ansVars, taskVars, kbVars>>

\* lines 169-172: save_hashes and return
CrawlEnd ==
    /\ crawl.pc = "loop"
    /\ ~CrawlGoesOn(crawl)
    /\ crawl' = [crawl EXCEPT !.pc = "done"]
    /\ hashStore' = crawl.hashes
    /\ UNCHANGED <<sitemap, site, rrfVars, hmVars, ansVars, taskVars, kbVars>>

(***************************************************************************)
(* The knowledge base: documents, the two indexes and their stores         *)
(***************************************************************************)
\* bound of the number of chunks the vector store holds
MaxCorpus == 2

\* config.py:50
DEFAULT_UPDATE_MAX_LINKS == 200

\* the chunk of a page: its cleaned text and its metadata. A text of the
\* model is shorter than CHUNK_SIZE and splits into one chunk.
Chunk(url, v) == [page_content |-> <<"clean", v>>, source |-> url]

\* _fetch_page: nothing for a failed request, a status other than 200 or a
\* cleaned text below the minimum length
FetchPage(pages, url) ==
    IF pages[url] \in {"fail", "nobody"} THEN <<>>
    ELSE IF CleanTextLen(pages[url]) < MinTextLen THEN <<>>
    ELSE <<Chunk(url, pages[url])>>

\* lines 170-178: fetch every page of pages_data again and split it
RECURSIVE FetchAndSplit(_, _, _)
FetchAndSplit(pages_data, pages, n) ==
    IF n > Len(pages_data) THEN <<>>
    ELSE FetchPage(pages, pages_data[n].url) \o FetchAndSplit(pages_data, pages, n + 1)

\* rag_core.py imports parse_sitemap from scraper and awaits it (line 166),
\* while the parse_sitemap of scraper.py is a plain function. The awaitable
\* is taken to run parse_sitemap and to yield the list it returns.
AwaitParseSitemap(sitemap_ok, entries, pages, max_links, stored) ==
    ParseSitemap(sitemap_ok, entries, pages, max_links, stored)

\* a preparation that crawls although no sitemap was found
PrepareDocumentsSkipsDiscovery(found, sitemap_ok, entries, crawled, fetched, max_links, stored) ==
    The({IF ps.results = <<>>
         THEN [raised |-> "", docs |-> <<>>, page_count |-> 0, pages |-> 0, store |-> ps.store]
         ELSE [raised |-> "", docs |-> FetchAndSplit(ps.results, fetched, 1),
               page_count |-> Len(ps.results), pages |-> Len(ps.results), store |-> ps.store] :
         ps \in {AwaitParseSitemap(sitemap_ok, entries, crawled, max_links, stored)}})

\* _prepare_documents_from_url. found: find_sitemap_url returned a URL;
\* crawled is the site as parse_sitemap fetched it, fetched the site as
\* _fetch_page fetched it afterwards.
PrepareDocuments(found, sitemap_ok, entries, crawled, fetched, max_links, stored) ==
    IF ~found
    THEN [raised |-> "ValueError", docs |-> <<>>, page_count |-> 0, pages |-> 0, store |-> stored]
    ELSE The({IF ps.raised # ""
              THEN [raised |-> ps.raised, docs |-> <<>>, page_count |-> 0, pages |-> 0,
                    store |-> ps.store]
              ELSE IF ps.results = <<>>
              THEN [raised |-> "", docs |-> <<>>, page_count |-> 0, pages |-> 0,
                    store |-> ps.store]
              ELSE [raised |-> "", docs |-> FetchAndSplit(ps.results, fetched, 1),
                    page_count |-> Len(ps.results), pages |-> Len(ps.results),
                    store |-> ps.store] :
              ps \in {AwaitParseSitemap(sitemap_ok, entries, crawled, max_links, stored)}})

\* json.dumps({"text": d.page_content, "metadata": d.metadata})
DocToRow(d) == [text |-> d.page_content, metadata |-> [source |-> d.source]]

\* Document(page_content=r["text"], metadata=r["metadata"])
RowToDoc(r) == [page_content |-> r.text, source |-> r.metadata.source]

DocsToRows(docs) == [n \in 1..Len(docs) |-> DocToRow(docs[n])]

RowsToDocs(rows) == [n \in 1..Len(rows) |-> RowToDoc(rows[n])]

NoVectorDisk == [exists |-> FALSE, docs |-> <<>>]

NoBm25Disk == [state |-> "absent", rows |-> <<>>]

NoRag == [ok |-> FALSE, has_vs |-> FALSE, vector_store |-> <<>>, bm25_docs |-> <<>>]

\* lines 92-105: the fields __init__ sets before it loads the BM25 corpus
NewInstance == [ok |-> TRUE, has_vs |-> FALSE, vector_store |-> <<>>, bm25_docs |-> <<>>]

\* _load_or_build_bm25_corpus: the corpus file when it exists and parses
\* (BM25Okapi raises on an empty corpus, which the except clause catches
\* like a parse error); otherwise the documents of self.vector_store, which
\* raises AttributeError while self.vector_store is None
LoadOrBuildBm25(self, bd) ==
    IF bd.state = "ok" /\ bd.rows # <<>>
    THEN [raised |-> "", self |-> [self EXCEPT !.bm25_docs = RowsToDocs(bd.rows)], bd |-> bd]
    ELSE IF ~self.has_vs
    THEN [raised |-> "AttributeError", self |-> self, bd |-> bd]
    ELSE [raised |-> "",
          self |-> [self EXCEPT !.bm25_docs = self.vector_store],
          bd |-> [state |-> "ok", rows |-> DocsToRows(self.vector_store)]]

\* a build that saves an empty index when it collected nothing
CreateKnowledgeBaseEmptyIndex(self, prep, vd, bd) ==
    IF prep.raised # ""
    THEN [raised |-> prep.raised, self |-> self, vd |-> vd, bd |-> bd]
    ELSE [raised |-> "",
          self |-> [self EXCEPT !.has_vs = TRUE, !.vector_store = prep.docs,
                                !.bm25_docs = prep.docs],
          vd |-> [exists |-> TRUE, docs |-> prep.docs],
          bd |-> [state |-> "ok", rows |-> DocsToRows(prep.docs)]]

\* create_knowledge_base after _prepare_documents_from_url returned prep
CreateKnowledgeBase(self, prep, vd, bd) ==
    IF prep.raised # ""
    THEN [raised |-> prep.raised, self |-> self, vd |-> vd, bd |-> bd]
    ELSE IF prep.docs = <<>>
    THEN [raised |-> "RAGInitializationError", self |-> self, vd |-> vd, bd |-> bd]
    ELSE [raised |-> "",
          self |-> [self EXCEPT !.has_vs = TRUE, !.vector_store = prep.docs,
                                !.bm25_docs = prep.docs],
          vd |-> [exists |-> TRUE, docs |-> prep.docs],
          bd |-> [state |-> "ok", rows |-> DocsToRows(prep.docs)]]

\* _append_bm25_corpus: open(..., "a") creates a missing file and leaves a
\* damaged one damaged
AppendBm25Corpus(bd, docs) ==
    CASE bd.state = "absent" -> [state |-> "ok", rows |-> DocsToRows(docs)]
      [] bd.state = "ok" -> [state |-> "ok", rows |-> bd.rows \o DocsToRows(docs)]
      [] bd.state = "corrupt" -> bd

\* an update that goes on to add and report when there is nothing to add
UpdateKnowledgeBaseNoEarlyReturn(self, prep, vd, bd) ==
    IF prep.raised # ""
    THEN [status |-> prep.raised, self |-> self, vd |-> vd, bd |-> bd]
    ELSE [status |-> "ok",
          self |-> [self EXCEPT !.vector_store = self.vector_store \o prep.docs],
          vd |-> [exists |-> TRUE, docs |-> self.vector_store \o prep.docs],
          bd |-> AppendBm25Corpus(bd, prep.docs)]

\* update_knowledge_base after _prepare_documents_from_url returned prep:
\* _build_bm25 is handed self._bm25_corpus_docs, the list as it was
UpdateKnowledgeBase(self, prep, vd, bd) ==
    IF prep.raised # ""
    THEN [status |-> prep.raised, self |-> self, vd |-> vd, bd |-> bd]
    ELSE IF prep.docs = <<>>
    THEN [status |-> "no_changes", self |-> self, vd |-> vd, bd |-> bd]
    ELSE [status |-> "ok",
          self |-> [self EXCEPT !.vector_store = self.vector_store \o prep.docs,
                                !.bm25_docs = self.bm25_docs],
          vd |-> [exists |-> TRUE, docs |-> self.vector_store \o prep.docs],
          bd |-> AppendBm25Corpus(bd, prep.docs)]

\* RAGCore.create: the constructor, then the saved vector store or a build
\* from the default site, then the BM25 corpus again. prep is what
\* _prepare_documents_from_url gives should the build run.
CreateLoaded(first, vd, stored) ==
    The({[raised |-> again.raised, self |-> again.self, vd |-> vd, bd |-> again.bd,
          store |-> stored, builds |-> 0] :
         again \in {LoadOrBuildBm25([first.self EXCEPT !.has_vs = TRUE,
                                                       !.vector_store = vd.docs],
                                    first.bd)}})

CreateBuilt(first, built, prep, vd) ==
    IF built.raised # ""
    THEN [raised |-> built.raised, self |-> NoRag, vd |-> vd, bd |-> first.bd,
          store |-> prep.store, builds |-> 1]
    ELSE The({[raised |-> again.raised, self |-> again.self, vd |-> built.vd,
               bd |-> again.bd, store |-> prep.store, builds |-> 1] :
              again \in {LoadOrBuildBm25(built.self, built.bd)}})

CreateInstance(prep, vd, bd, stored) ==
    The({IF first.raised # ""
         THEN [raised |-> first.raised, self |-> NoRag, vd |-> vd, bd |-> bd,
               store |-> stored, builds |-> 0]
         ELSE IF vd.exists
         THEN CreateLoaded(first, vd, stored)
         ELSE The({CreateBuilt(first, built, prep, vd) :
                   built \in {CreateKnowledgeBase(first.self, prep, vd, first.bd)}}) :
         first \in {LoadOrBuildBm25(NewInstance, bd)}})

(***************************************************************************)
(* The handlers of main.py and the world around them                       *)
(***************************************************************************)
\* the sitemap of the default site: u2 before u1 by priority
SiteSitemap ==
    <<[loc |-> [base |-> "u1", frag |-> ""], priority |-> "0.1"],
      [loc |-> [base |-> "u2", frag |-> "top"], priority |-> "0.9"]>>

SiteUrls == {UrlDefrag(SiteSitemap[n].loc) : n \in 1..Len(SiteSitemap)}

\* the site while a call runs: at most one page changes between the crawl
\* and the fetch that follows it
SiteServed == {"fail", "v1", "v2"}

SiteAfter(pages) ==
    {pages} \cup {[pages EXCEPT ![u] = sv] : u \in SiteUrls, sv \in SiteServed}

\* find_sitemap_url found a sitemap or not, and the sitemap could be read or not
Discovery == {<<FALSE, FALSE>>, <<TRUE, FALSE>>, <<TRUE, TRUE>>}

\* main() lines 198-207 and the /restart handler lines 99-111:
\* rag_system = await RAGCore.create(), None on any exception
Startup(op, found, sitemap_ok, fetched) ==
    \E prep \in {PrepareDocuments(found, sitemap_ok, sitemap, site, fetched,
                                  DEFAULT_UPDATE_MAX_LINKS, hashStore)} :
    \E made \in {CreateInstance(prep, vectorDisk, bm25Disk, hashStore)} :
        /\ rag' = IF made.raised # "" THEN NoRag ELSE made.self
        /\ vectorDisk' = made.vd
        /\ bm25Disk' = made.bd
        /\ hashStore' = made.store
        /\ (made.builds = 0 \/ prep.pages = 0) => fetched = site
        /\ site' = fetched
        /\ started' = TRUE
        /\ last' = [op |-> op, status |-> IF made.raised # "" THEN made.raised ELSE "ok",
                    had_vector |-> vectorDisk.exists, had_bm25 |-> bm25Disk.state,
                    builds |-> made.builds,
                    crawl_ok |-> found /\ sitemap_ok,
                    pages |-> IF made.builds = 1 THEN prep.pages ELSE 0,
                    added |-> <<>>,
                    found |-> made.builds = 1 /\ found,
                    chunks |-> IF made.builds = 1 THEN Len(prep.docs) ELSE 0]
        /\ UNCHANGED <<sitemap, faults, crawl, rrfVars, hmVars, ansVars, taskVars>>

Main ==
    /\ ~started
    /\ \E disc \in Discovery, fetched \in SiteAfter(site) :
          Startup("main", disc[1], disc[2], fetched)

Restart ==
    /\ started
    /\ \E disc \in Discovery, fetched \in SiteAfter(site) :
          Startup("restart", disc[1], disc[2], fetched)

\* update_command_handler
UpdateCommand(max_links, found, sitemap_ok, fetched) ==
    /\ started
    /\ rag.ok
    /\ \E prep \in {PrepareDocuments(found, sitemap_ok, sitemap, site, fetched,
                                      max_links, hashStore)} :
       \E done \in {UpdateKnowledgeBase(rag, prep, vectorDisk, bm25Disk)} :
           /\ Len(rag.vector_store) + Len(prep.docs) <= MaxCorpus
           /\ rag' = done.self
           /\ vectorDisk' = done.vd
           /\ bm25Disk' = done.bd
           /\ hashStore' = prep.store
           /\ prep.pages = 0 => fetched = site
           /\ site' = fetched
           /\ last' = [op |-> "update", status |-> done.status,
                       had_vector |-> vectorDisk.exists, had_bm25 |-> bm25Disk.state,
                       builds |-> 0,
                       crawl_ok |-> found /\ sitemap_ok,
                       pages |-> prep.pages,
                       added |-> IF done.status = "ok" THEN prep.docs ELSE <<>>,
                       found |-> found,
                       chunks |-> Len(prep.docs)]
    /\ UNCHANGED <<sitemap, started, faults, crawl, rrfVars, hmVars, ansVars, taskVars>>

\* the site changes a page
SiteChange(url, served) ==
    /\ site[url] # served
    /\ site' = [site EXCEPT ![url] = served]
    /\ last' = [op |-> "site"]
    /\ UNCHANGED <<sitemap, hashStore, crawl, vectorDisk, bm25Disk, rag, started, faults,
                   rrfVars, hmVars, ansVars, taskVars>>

\* a persisted store is lost or damaged while the bot is down or running
StoreFault(what) ==
    /\ \/ what = "vector" /\ vectorDisk.exists /\ vectorDisk' = NoVectorDisk
          /\ UNCHANGED bm25Disk
       \/ what = "bm25" /\ bm25Disk.state # "absent" /\ bm25Disk' = NoBm25Disk
          /\ UNCHANGED vectorDisk
       \/ what = "corrupt" /\ bm25Disk.state = "ok"
          /\ bm25Disk' = [state |-> "corrupt", rows |-> <<>>]
          /\ UNCHANGED vectorDisk
    /\ faults' = TRUE
    /\ last' = [op |-> "fault"]
    /\ UNCHANGED <<sitemap, site, hashStore, crawl, rag, started, rrfVars, hmVars, ansVars, taskVars>>

(***************************************************************************)
(* RAGCore.get_answer                                                      *)
(***************************************************************************)
NoAnswer == [pc |-> "off"]

\* config.py:26-28
TOP_K_DENSE == 8
TOP_K_BM25 == 12
TOP_K_FUSED == 8

\* bounds of the list the dense retriever finds relevant and of the BM25 corpus
MaxRelevant == 2
MaxBm25Corpus == 1

\* Chunks with their metadata; NoSource marks an entry the metadata lacks.
\* Two chunks of one page, a chunk that has a "url" but no "source", and a
\* chunk without any URL.
AnsDocs ==
    {[page_content |-> <<1>>, source |-> "u1", url |-> NoSource, title |-> "t1"],
     [page_content |-> <<2>>, source |-> "u1", url |-> "u9", title |-> NoSource],
     [page_content |-> <<3>>, source |-> NoSource, url |-> "u2", title |-> NoSource],
     [page_content |-> <<4>>, source |-> NoSource, url |-> NoSource, title |-> NoSource]}

\* a value Python's "or" passes over: None or the empty string
Falsy(x) == x \in {NoSource, ""}

\* _dense_retrieve: self.retriever.get_relevant_documents(query)[:k]
DenseRetrieve(relevant, k) == Take(relevant, k)

\* the indices 1..Len(scores) by descending score, equal scores in index
\* order: sorted(range(len(scores)), key=lambda i: scores[i], reverse=True)
OrderByScore(scores) ==
    The({[n \in 1..Len(ranked) |-> ranked[n][1]] :
         ranked \in {SortedByValueDesc([i \in 1..Len(scores) |-> <<i, scores[i]>>])}})

\* _bm25_retrieve; scores is what self._bm25.get_scores returns
Bm25Retrieve(corpus, scores, k) ==
    IF corpus = <<>> THEN <<>>
    ELSE The({[n \in 1..Len(idx) |-> corpus[idx[n]]] : idx \in {Take(OrderByScore(scores), k)}})

\* what the cross-encoder does in one call: it fails to load, predict raises,
\* or predict returns one score per pair
RerankOutcomes(n) ==
    {[fail |-> f, scores |-> <<>>] : f \in {"load", "predict"}}
        \cup {[fail |-> "", scores |-> sc] : sc \in [1..n -> {0, 1}]}

\* a reranker that drops the chunks it scores lowest when it succeeds
MaybeRerankDropsLow(docs, outcome) ==
    IF outcome.fail # "" THEN docs
    ELSE The({[n \in 1..Len(order) |-> docs[order[n]]] :
              order \in {SelectSeq(OrderByScore(outcome.scores),
                                   LAMBDA i : outcome.scores[i] > 0)}})

\* _maybe_rerank
MaybeRerank(docs, outcome) ==
    IF outcome.fail # "" THEN docs
    ELSE The({[n \in 1..Len(order) |-> docs[order[n]]] :
              order \in {OrderByScore(outcome.scores)}})

\* url = d.metadata.get("source") or d.metadata.get("url") or ""
DocUrl(d) ==
    IF ~Falsy(d.source) THEN d.source
    ELSE IF ~Falsy(d.url) THEN d.url
    ELSE ""

\* {"title": d.metadata.get("title") or url, "url": url}
SourceEntry(d) ==
    [title |-> IF ~Falsy(d.title) THEN d.title ELSE DocUrl(d), url |-> DocUrl(d)]

\* head + d.page_content, head holding d.metadata.get('title', '') and url
ContextBlock(d) ==
    [title |-> IF d.title = NoSource THEN "" ELSE d.title, url |-> DocUrl(d),
     text |-> d.page_content]

\* a loop body that lists the URL of every chunk
WalkStepNoDedup(st, d) ==
    [seen_urls |-> st.seen_urls \cup {DocUrl(d)},
     sources |-> IF DocUrl(d) # "" THEN Append(st.sources, SourceEntry(d)) ELSE st.sources,
     context_blocks |-> Append(st.context_blocks, ContextBlock(d))]

\* the body of the loop over the final list, lines 313-319
WalkStep(st, d) ==
    [seen_urls |-> IF DocUrl(d) # "" THEN st.seen_urls \cup {DocUrl(d)} ELSE st.seen_urls,
     sources |-> IF DocUrl(d) # "" /\ DocUrl(d) \notin st.seen_urls
                 THEN Append(st.sources, SourceEntry(d)) ELSE st.sources,
     context_blocks |-> Append(st.context_blocks, ContextBlock(d))]

\* for d in fused: ...
RECURSIVE Walk(_, _, _)
Walk(st, docs, n) ==
    IF n > Len(docs) THEN st
    ELSE The({Walk(next, docs, n + 1) : next \in {WalkStep(st, docs[n])}})

\* lines 301-304: both retrievals and their fusion
Retrieve(relevant, corpus, bm_scores) ==
    RrfFusion(<<DenseRetrieve(relevant, TOP_K_DENSE),
                Bm25Retrieve(corpus, bm_scores, TOP_K_BM25)>>, TOP_K_FUSED)

\* a get_answer that hands an empty context to the generation model
AnswerOfAlwaysGenerates(fused, final, walked, llm_ok) ==
    IF ~llm_ok
    THEN [pc |-> "raised", kind |-> "", messages |-> <<>>, sources |-> <<>>,
          fused |-> fused, final |-> final, passages |-> walked.context_blocks,
          llm_called |-> TRUE]
    ELSE [pc |-> "out", kind |-> "answer", messages |-> <<"answer">>,
          sources |-> walked.sources, fused |-> fused, final |-> final,
          passages |-> walked.context_blocks, llm_called |-> TRUE]

\* lines 321-334: the "no information" return, or the generation model's
\* answer, whose exception nothing in get_answer catches
AnswerOf(fused, final, walked, llm_ok) ==
    IF walked.context_blocks = <<>>
    THEN [pc |-> "out", kind |-> "no_info", messages |-> <<>>, sources |-> <<>>,
          fused |-> fused, final |-> final, passages |-> <<>>, llm_called |-> FALSE]
    ELSE IF ~llm_ok
    THEN [pc |-> "raised", kind |-> "", messages |-> <<>>, sources |-> <<>>,
          fused |-> fused, final |-> final, passages |-> walked.context_blocks,
          llm_called |-> TRUE]
    ELSE [pc |-> "out", kind |-> "answer", messages |-> <<"answer">>,
          sources |-> walked.sources, fused |-> fused, final |-> final,
          passages |-> walked.context_blocks, llm_called |-> TRUE]

NoWalk == [seen_urls |-> {}, sources |-> <<>>, context_blocks |-> <<>>]

\* get_answer. ans.use_reranker: os.getenv("USE_RERANKER", "true") is "true"
GetAnswer ==
    /\ ans.pc = "in"
    /\ \E bm_scores \in [1..Len(ans.corpus) -> {0, 1}], llm_ok \in BOOLEAN :
       \E fused \in {Retrieve(ans.relevant, ans.corpus, bm_scores)} :
       \E outcome \in RerankOutcomes(Len(fused)) :
       \E final \in {IF ans.use_reranker THEN MaybeRerank(fused, outcome) ELSE fused} :
       \E walked \in {Walk(NoWalk, final, 1)} :
           ans' = [in |-> [ans EXCEPT !.pc = "given"], rerank |-> outcome,
                   out |-> AnswerOf(fused, final, walked, llm_ok), pc |-> "done"]
    /\ UNCHANGED <<rrfVars, hmVars, crawlVars, kbVars, taskVars>>

NoTasks == <<>>

(***************************************************************************)
(* /update handlers as tasks of the event loop. Dispatcher.start_polling   *)
(* runs each handler as a task of its own, so a handler that waits at an   *)
(* await leaves the loop to the handlers of later messages. An /update     *)
(* handler waits after its "starting" reply (main.py 139-141) and inside   *)
(* _prepare_documents_from_url at the gather of the page fetches           *)
(* (rag_core.py 171-173); what lies between two waits runs as one step.    *)
(***************************************************************************)
\* /update messages per run
MaxUpdates == 2

\* update_command_handler lines 115-141: refused without an instance,
\* otherwise the "starting" reply is sent. Nothing here looks at the
\* handlers already running.
UpdateReceived(max_links) ==
    /\ Len(tasks) < MaxUpdates
    /\ tasks' = Append(tasks,
                       IF ~rag.ok
                       THEN [pc |-> "done", max_links |-> max_links, pages_data |-> <<>>,
                             status |-> "unavailable"]
                       ELSE [pc |-> "announced", max_links |-> max_links,
                             pages_data |-> <<>>, status |-> ""])
    /\ UNCHANGED <<rrfVars, hmVars, crawlVars, kbVars, ansVars>>

\* update_knowledge_base up to the gather, rag_core.py 196 and 160-173:
\* discovery and parse_sitemap, which writes the hash store; the handler
\* reports a failure or an empty crawl at once (main.py 143-149)
UpdateCrawl(t, found, sitemap_ok) ==
    /\ t \in DOMAIN tasks
    /\ tasks[t].pc = "announced"
    /\ IF ~found
       THEN /\ tasks' = [tasks EXCEPT ![t].pc = "done", ![t].status = "ValueError"]
            /\ UNCHANGED hashStore
       ELSE \E ps \in {AwaitParseSitemap(sitemap_ok, sitemap, site, tasks[t].max_links,
                                         hashStore)} :
               /\ hashStore' = ps.store
               /\ tasks' = IF ps.raised # ""
                           THEN [tasks EXCEPT ![t].pc = "done", ![t].status = ps.raised]
                           ELSE IF ps.results = <<>>
                           THEN [tasks EXCEPT ![t].pc = "done",
                                              ![t].status = "no_changes"]
                           ELSE [tasks EXCEPT ![t].pc = "fetching",
                                              ![t].pages_data = ps.results]
    /\ UNCHANGED <<sitemap, site, crawl, rrfVars, hmVars, kbVars, ansVars>>

\* the gather has the pages: rag_core.py 175-179 and 197-210, then the
\* handler reports the status
UpdateIndex(t, fetched) ==
    /\ t \in DOMAIN tasks
    /\ tasks[t].pc = "fetching"
    /\ \E docs \in {FetchAndSplit(tasks[t].pages_data, fetched, 1)} :
       \E done \in {UpdateKnowledgeBase(rag,
                                        [raised |-> "", docs |-> docs,
                                         page_count |-> Len(tasks[t].pages_data),
                                         pages |-> Len(tasks[t].pages_data),
                                         store |-> hashStore],
                                        vectorDisk, bm25Disk)} :
           /\ rag' = done.self
           /\ vectorDisk' = done.vd
           /\ bm25Disk' = done.bd
           /\ tasks' = [tasks EXCEPT ![t].pc = "done", ![t].status = done.status]
    /\ site' = fetched
    /\ UNCHANGED <<sitemap, hashStore, crawl, started, faults, last, rrfVars, hmVars, ansVars>>

(***************************************************************************)
(* What the fusion contract says, stated on the input lists alone          *)
(***************************************************************************)
RECURSIVE SumOver(_, _)
SumOver(S, f) ==
    IF S = {} THEN 0
    ELSE LET x == CHOOSE y \in S : TRUE IN f[x] + SumOver(S \ {x}, f)

\* 1 / (60 + rank + 1) as a multiple of 1 / ScoreDen
ReciprocalRank(rank) == ScoreDen \div (60 + rank + 1)

\* the places <<list, 0-based rank>> at which a key occurs
Places(lists, key) ==
    {pl \in UNION {{<<j, r>> : r \in 0..(Len(lists[j]) - 1)} : j \in 1..Len(lists)} :
        FusionKey(lists[pl[1]][pl[2] + 1]) = key}

FusedScore(lists, key) ==
    LET pls == Places(lists, key)
    IN  SumOver(pls, [pl \in pls |-> ReciprocalRank(pl[2])])

RECURSIVE Concat(_, _)
Concat(lists, j) == IF j > Len(lists) THEN <<>> ELSE lists[j] \o Concat(lists, j + 1)

InputKeys(lists) == {FusionKey(d) : d \in Range(Concat(lists, 1))}

\* where a key is first seen, scanning the lists in order
FirstSeenAt(lists, key) ==
    LET all == Concat(lists, 1)
    IN  CHOOSE n \in 1..Len(all) :
            /\ FusionKey(all[n]) = key
            /\ \A m \in 1..(n - 1) : FusionKey(all[m]) # key

RanksBefore(lists, a, b) ==
    \/ FusedScore(lists, a) > FusedScore(lists, b)
    \/ /\ FusedScore(lists, a) = FusedScore(lists, b)
       /\ FirstSeenAt(lists, a) < FirstSeenAt(lists, b)

\* C9: _rrf_fusion returns the chunks by descending fused score, the score of a
\* chunk being the sum of 1/(60 + rank + 1) over every place its FusionKey
\* occurs at; chunks of equal score keep first-list-first-seen order; only the
\* top k are returned.
C9_RrfOrder ==
    rrfPc = "out" =>
        LET keys == [n \in 1..Len(rrfOut) |-> FusionKey(rrfOut[n])]
        IN  /\ Len(rrfOut) = Min(rrfK, Cardinality(InputKeys(rrfLists)))
            /\ \A m, n \in 1..Len(rrfOut) :
                   m < n => RanksBefore(rrfLists, keys[m], keys[n])
            /\ \A key \in InputKeys(rrfLists) \ Range(keys) :
                   \A n \in 1..Len(rrfOut) : RanksBefore(rrfLists, keys[n], key)

\* a fusion whose output holds two chunks of equal score, a chunk scored at
\* two places, and fewer chunks than the lists hold keys
C9_Witness ==
    /\ rrfPc = "out"
    /\ Len(rrfOut) = rrfK
    /\ rrfK < Cardinality(InputKeys(rrfLists))
    /\ \E m, n \in 1..Len(rrfOut) :
          /\ m < n
          /\ FusedScore(rrfLists, FusionKey(rrfOut[m])) = FusedScore(rrfLists, FusionKey(rrfOut[n]))
          /\ Cardinality(Places(rrfLists, FusionKey(rrfOut[m]))) = 2

\* no two entries of a list share a FusionKey
DistinctKeys(docs) ==
    \A m, n \in 1..Len(docs) : m # n => FusionKey(docs[m]) # FusionKey(docs[n])

ListKeys(docs) == {FusionKey(d) : d \in Range(docs)}

\* the place of a key in the output, 0 when it was cut off
OutPlace(out, key) ==
    IF key \in ListKeys(out)
    THEN CHOOSE n \in 1..Len(out) : FusionKey(out[n]) = key
    ELSE 0

\* at the configured list sizes, the two reciprocal ranks of a chunk that is
\* in both lists add up to more than the reciprocal rank of any one place:
\* 1/p + 1/q > 1/r, multiplied out
BothListsOutweighOne ==
    \A r1 \in 0..(TOP_K_DENSE - 1), r2 \in 0..(TOP_K_BM25 - 1), r \in 0..(TOP_K_BM25 - 1) :
        ((K + r1 + 1) + (K + r2 + 1)) * (K + r + 1) > (K + r1 + 1) * (K + r2 + 1)

\* C22: when no list holds a FusionKey twice, every chunk that is in both
\* lists is ranked above every chunk that is in one list only: where the
\* latter is in the output, the former is in it at an earlier place. The
\* scores of the configured list sizes (8 and 12 entries) keep that order.
C22_BothListsRankFirst ==
    /\ BothListsOutweighOne
    /\ (rrfPc = "out" /\ DistinctKeys(rrfLists[1]) /\ DistinctKeys(rrfLists[2])) =>
          \A a \in ListKeys(rrfLists[1]) \cap ListKeys(rrfLists[2]) :
          \A b \in (ListKeys(rrfLists[1]) \cup ListKeys(rrfLists[2])) \
                    (ListKeys(rrfLists[1]) \cap ListKeys(rrfLists[2])) :
              OutPlace(rrfOut, b) > 0 =>
                  (OutPlace(rrfOut, a) > 0 /\ OutPlace(rrfOut, a) < OutPlace(rrfOut, b))

\* a fusion that returned a chunk of both lists before a chunk that leads
\* the first list and is in no other
C22_Witness ==
    /\ rrfPc = "out"
    /\ DistinctKeys(rrfLists[1]) /\ DistinctKeys(rrfLists[2])
    /\ Len(rrfLists[1]) = 2
    /\ FusionKey(rrfLists[1][1]) \notin ListKeys(rrfLists[2])
    /\ FusionKey(rrfLists[1][2]) \in ListKeys(rrfLists[2])
    /\ Len(rrfOut) >= 2
    /\ FusionKey(rrfOut[1]) = FusionKey(rrfLists[1][2])
    /\ FusionKey(rrfOut[2]) = FusionKey(rrfLists[1][1])

\* C10: the output of _rrf_fusion has at most k entries, no two entries share
\* a FusionKey, every entry is the first-seen chunk object of its key, and
\* every entry occurs in an input list.
C10_RrfEntries ==
    rrfPc = "out" =>
        /\ Len(rrfOut) <= rrfK
        /\ \A m, n \in 1..Len(rrfOut) :
               m # n => FusionKey(rrfOut[m]) # FusionKey(rrfOut[n])
        /\ \A n \in 1..Len(rrfOut) :
               /\ rrfOut[n] \in Range(Concat(rrfLists, 1))
               /\ rrfOut[n] = Concat(rrfLists, 1)[FirstSeenAt(rrfLists, FusionKey(rrfOut[n]))]

\* a fusion of lists that hold two different chunks under one FusionKey, in
\* both orders, cut to k entries
C10_Witness ==
    /\ rrfPc = "out"
    /\ Len(rrfOut) = rrfK
    /\ DocB \in Range(rrfOut)
    /\ DocA \in Range(rrfLists[2])
    /\ DocC \in Range(rrfOut)
    /\ Cardinality(InputKeys(rrfLists)) > rrfK

(***************************************************************************)
(* Claims about HashManager.has_changed (SpecHash)                         *)
(***************************************************************************)
\* C8: has_changed(url, content) returns false and leaves the whole map
\* unchanged exactly when the stored fingerprint of url equals the hash of
\* content; otherwise it returns true and sets only url's entry to the new
\* hash. For a url not yet holding that fingerprint, two consecutive calls
\* with the same (url, content) return true then false.
C8_HasChanged ==
    /\ Len(hmCall) >= 1 =>
          LET c == hmCall[1]
              h == Md5(c.content)
          IN  /\ (c.before[c.url] = h) <=> (c.ret = FALSE)
              /\ c.before[c.url] = h => hmHashes = c.before
              /\ c.before[c.url] # h =>
                    /\ c.ret = TRUE
                    /\ hmHashes[c.url] = h
                    /\ \A o \in URLS \ {c.url} : hmHashes[o] = c.before[o]
    /\ Len(hmCall) = 2 =>
          LET c == hmCall[1]
              b == hmCall[2]
          IN  (/\ b.url = c.url
               /\ b.content = c.content
               /\ b.before[b.url] # Md5(b.content)) => (b.ret = TRUE /\ c.ret = FALSE)

\* two consecutive calls with one (url, content), the first on a url that
\* holds another fingerprint, while another url holds a fingerprint too
C8_Witness ==
    /\ Len(hmCall) = 2
    /\ hmCall[1].url = hmCall[2].url
    /\ hmCall[1].content = hmCall[2].content
    /\ hmCall[2].before[hmCall[2].url] \in Digests \ {Md5(hmCall[2].content)}
    /\ \E o \in URLS \ {hmCall[1].url} : hmHashes[o] # None

(***************************************************************************)
(* Claims about parse_sitemap (SpecCrawl)                                  *)
(***************************************************************************)
\* the n-th visit of the crawl found a page the change detector reports changed
ChangedVisit(cs, pages, n) ==
    /\ pages[cs.visited[n]] \in Versions
    /\ cs.loaded[cs.visited[n]] # Md5(BodyText(pages[cs.visited[n]]))
    /\ \A m \in 1..(n - 1) : cs.visited[m] # cs.visited[n]

ChangedVisits(cs, pages, upto) == {n \in 1..upto : ChangedVisit(cs, pages, n)}

\* C5: for a sitemap with more URLs than max_links the crawler visits exactly
\* the max_links highest-priority URLs, in descending priority order, and no
\* other URL.
C5_VisitsTopMaxLinks ==
    (crawl.pc = "done" /\ Len(sitemap) > crawl.max_links) =>
        crawl.visited = [n \in 1..crawl.max_links |-> UrlDefrag(crawl.urls_to_check[n].url)]

C23_CrawlTerminates ==
    /\ [][(crawl.pc = "loop" /\ crawl'.pc = "loop") =>
              /\ crawl'.i = crawl.i + 1
              /\ crawl'.i <= Len(crawl.urls_to_check)
              /\ crawl'.urls_to_check = crawl.urls_to_check
              /\ crawl'.visited =
                     Append(crawl.visited, UrlDefrag(crawl.urls_to_check[crawl.i + 1].url))]_vars
    /\ (crawl.pc = "loop") ~> (crawl.pc = "done")

\* a finished crawl that went through all three candidates, among them a
\* failed request, a page without body and a page with a body
C23_Witness ==
    /\ crawl.pc = "done"
    /\ crawl.i = 3
    /\ Len(crawl.visited) = 3
    /\ \E n \in 1..3 : site[crawl.visited[n]] = "fail"
    /\ \E n \in 1..3 : site[crawl.visited[n]] = "nobody"
    /\ \E n \in 1..3 : site[crawl.visited[n]] \in Versions

\* the priority the claims give a <priority> text, times ten
ClaimedPriority(raw) ==
    CASE raw = "0.1" -> 1
      [] raw = "0.9" -> 9
      [] OTHER -> 5

\* the place of a crawl candidate among the entries of the sitemap
SitemapIndex(cand) == CHOOSE n \in 1..Len(sitemap) : sitemap[n].loc = cand.url

\* C14: the crawl order is the sitemap's entries by descending priority,
\* entries of equal priority in sitemap order, an entry without <priority>
\* taken as 0.5
C14_CrawlOrder ==
    crawl.pc \in {"loop", "done"} =>
        LET order == [n \in 1..Len(crawl.urls_to_check) |-> SitemapIndex(crawl.urls_to_check[n])]
        IN  /\ Len(order) = Len(sitemap)
            /\ \A n \in 1..Len(sitemap) : \E m \in 1..Len(order) : order[m] = n
            /\ \A m, n \in 1..Len(order) :
                   m < n =>
                       \/ ClaimedPriority(sitemap[order[m]].priority)
                             > ClaimedPriority(sitemap[order[n]].priority)
                       \/ /\ ClaimedPriority(sitemap[order[m]].priority)
                               = ClaimedPriority(sitemap[order[n]].priority)
                          /\ order[m] < order[n]

\* a crawl of a sitemap whose first and third entry lack a priority, the
\* second having 0.9: the second goes first, the others keep their order
C14_Witness ==
    /\ crawl.pc = "done"
    /\ sitemap[1].priority = "absent"
    /\ sitemap[2].priority = "0.9"
    /\ sitemap[3].priority = "absent"
    /\ Len(crawl.urls_to_check) = 3
    /\ crawl.urls_to_check[1].url = sitemap[2].loc
    /\ crawl.urls_to_check[2].url = sitemap[1].loc
    /\ crawl.urls_to_check[3].url = sitemap[3].loc

\* C15: an entry whose priority is no number is given priority 0.5 and the
\* crawl goes over all entries; a malformed priority never aborts the crawl
C15_MalformedPriorityDefaults ==
    (crawl.pc \notin {"idle", "failed"}) =>
        /\ crawl.pc \in {"loop", "done"}
        /\ Len(crawl.urls_to_check) = Len(sitemap)
        /\ \A n \in 1..Len(crawl.urls_to_check) :
               crawl.urls_to_check[n].priority
                   = ClaimedPriority(sitemap[SitemapIndex(crawl.urls_to_check[n])].priority)

\* C7: only pages fetched successfully whose cleaned text reaches the minimum
\* length are submitted to change detection: a page that is too short never
\* gets its fingerprint recorded and never counts as one of the max_links
\* changed pages.
C7_ShortPagesNotFingerprinted ==
    crawl.pc = "done" =>
        /\ \A u \in URLS :
               crawl.hashes[u] # crawl.loaded[u] =>
                   (site[u] \in Versions /\ CleanTextLen(site[u]) >= MinTextLen)
        /\ \A n \in 1..Len(crawl.results) :
               CleanTextLen(crawl.results[n].html_body) >= MinTextLen

(***************************************************************************)
(* Claims about the knowledge base (Spec)                                  *)
(***************************************************************************)
\* the chunks a persisted BM25 corpus holds
Bm25DiskDocs == Range(RowsToDocs(bm25Disk.rows))

C3_StartupLoadsOrBuilds ==
    last.op \in {"main", "restart"} =>
        /\ (last.had_vector /\ last.had_bm25 = "ok") =>
              /\ last.builds = 0
              /\ rag.ok
              /\ rag.vector_store = vectorDisk.docs
              /\ Range(rag.bm25_docs) = Bm25DiskDocs
        /\ (~last.had_vector /\ last.had_bm25 = "absent") =>
              /\ last.builds = 1
              /\ last.status = "ok" =>
                    (rag.ok /\ rag.vector_store # <<>> /\ rag.bm25_docs # <<>>)

C16_CorpusLossRecovered ==
    (last.op \in {"main", "restart"} /\ last.had_bm25 \in {"absent", "corrupt"}) =>
        /\ last.had_vector =>
              /\ last.status = "ok"
              /\ rag.ok
              /\ bm25Disk.state = "ok"
              /\ Bm25DiskDocs = Range(vectorDisk.docs)
        /\ ~last.had_vector => last.builds = 1

\* C17: when no sitemap is found, an update fails with the named failure
\* and leaves the fingerprint store, both indexes and both persisted stores
\* as they were; a build fails with the named failure, leaves the stores as
\* they were and gives no instance
C17_DiscoveryFailure ==
    [][/\ (last'.op = "update" /\ ~last'.found) =>
              /\ last'.status = "ValueError"
              /\ UNCHANGED <<rag, vectorDisk, bm25Disk, hashStore>>
       /\ (last'.op \in {"main", "restart"} /\ last'.builds = 1 /\ ~last'.found) =>
              /\ last'.status = "ValueError"
              /\ ~rag'.ok
              /\ UNCHANGED <<vectorDisk, bm25Disk, hashStore>>]_vars

\* an update of a populated knowledge base found no sitemap
C17_Witness ==
    /\ last.op = "update"
    /\ ~last.found
    /\ last.status = "ValueError"
    /\ rag.ok /\ rag.vector_store # <<>>

C24_FingerprintedIsIndexed ==
    (~faults /\ last.op \in {"main", "restart", "update"}) =>
        \A u \in SiteUrls :
            (site[u] \in Versions /\ hashStore[u] = Md5(BodyText(site[u]))) =>
                Chunk(u, site[u]) \in Range(vectorDisk.docs)

C26_BootstrapIgnoresFingerprints ==
    (/\ last.op \in {"main", "restart"}
     /\ last.builds = 1
     /\ last.crawl_ok
     /\ \E u \in SiteUrls : site[u] \in Versions /\ CleanTextLen(site[u]) >= MinTextLen) =>
        last.pages > 0

(***************************************************************************)
(* Claims about concurrent updates (SpecUpdates)                           *)
(***************************************************************************)
\* the handlers that are inside update_knowledge_base
UpdatesInFlight == {t \in DOMAIN tasks : tasks[t].pc = "fetching"}

Count(sq, x) == Cardinality({n \in 1..Len(sq) : sq[n] = x})

\* C11: when the reranker fails to load or raises, the final list is the
\* fused list and the passages follow the fused order; in every case the
\* final list is a permutation of the fused list
C11_RerankKeepsChunks ==
    ans.pc = "done" =>
        /\ Len(ans.out.final) = Len(ans.out.fused)
        /\ \A d \in AnsDocs : Count(ans.out.final, d) = Count(ans.out.fused, d)
        /\ (ans.in.use_reranker /\ ans.rerank.fail # "") =>
              /\ ans.out.final = ans.out.fused
              /\ Len(ans.out.passages) = Len(ans.out.fused)
              /\ \A n \in 1..Len(ans.out.fused) :
                     ans.out.passages[n].text = ans.out.fused[n].page_content

\* an answer over three fused chunks whose reranker raised
C11_Witness ==
    /\ ans.pc = "done"
    /\ ans.in.use_reranker
    /\ ans.rerank.fail = "predict"
    /\ Len(ans.out.fused) = 3
    /\ ans.out.kind = "answer"

\* C12: a query against an empty corpus, and any query whose fusion yields
\* no chunk, returns the "no information" signal with an empty source list,
\* without a call of the generation model and without an exception
C12_EmptyGivesNoInformation ==
    (ans.pc = "done" /\ (ans.out.fused = <<>> \/ (ans.in.relevant = <<>> /\ ans.in.corpus = <<>>))) =>
        /\ ans.out.pc = "out"
        /\ ans.out.kind = "no_info"
        /\ ans.out.sources = <<>>
        /\ ~ans.out.llm_called

\* a query against an empty corpus, the reranker called on the empty list
C12_Witness ==
    /\ ans.pc = "done"
    /\ ans.in.relevant = <<>> /\ ans.in.corpus = <<>>
    /\ ans.in.use_reranker /\ ans.rerank.fail = ""
    /\ ans.out.kind = "no_info"

\* the first place a URL occurs at in a list of URLs
FirstIndex(urls, u) == CHOOSE n \in 1..Len(urls) : urls[n] = u /\ \A m \in 1..(n - 1) : urls[m] # u

\* C13: the source list holds each URL of the final chunks exactly once, in
\* order of first occurrence, and the passage sequence holds one passage per
\* final chunk in the order of the final list
C13_SourcesAndPassages ==
    (ans.pc = "done" /\ ans.out.pc = "out") =>
        LET urls == [n \in 1..Len(ans.out.final) |-> DocUrl(ans.out.final[n])]
            srcs == [n \in 1..Len(ans.out.sources) |-> ans.out.sources[n].url]
        IN  /\ \A n \in 1..Len(urls) : urls[n] # "" => Count(srcs, urls[n]) = 1
            /\ \A m \in 1..Len(srcs) : srcs[m] # "" /\ Count(urls, srcs[m]) >= 1
            /\ \A m1, m2 \in 1..Len(srcs) :
                   m1 < m2 => FirstIndex(urls, srcs[m1]) < FirstIndex(urls, srcs[m2])
            /\ Len(ans.out.passages) = Len(ans.out.final)
            /\ \A n \in 1..Len(ans.out.final) :
                   /\ ans.out.passages[n].text = ans.out.final[n].page_content
                   /\ ans.out.passages[n].url = urls[n]

\* an answer over three final chunks: two of one page with a chunk of another
\* page between them
C13_Witness ==
    /\ ans.pc = "done"
    /\ ans.out.kind = "answer"
    /\ Len(ans.out.final) = 3
    /\ DocUrl(ans.out.final[1]) = DocUrl(ans.out.final[3])
    /\ DocUrl(ans.out.final[2]) \notin {"", DocUrl(ans.out.final[1])}
    /\ Len(ans.out.sources) = 2

(***************************************************************************)
(* Specifications                                                          *)
(***************************************************************************)
InitRRF ==
    /\ rrfPc = "in"
    /\ rrfLists \in RrfInputs
    /\ rrfK \in 0..MaxK
    /\ rrfOut = <<>>
    /\ hmHashes = NoHashes
    /\ hmCall = <<>>
    /\ sitemap = <<>>
    /\ site = NoSite
    /\ hashStore = NoHashes
    /\ crawl = Idle
    /\ vectorDisk = NoVectorDisk
    /\ bm25Disk = NoBm25Disk
    /\ rag = NoRag
    /\ started = FALSE
    /\ faults = FALSE
    /\ last = [op |-> "none"]
    /\ ans = NoAnswer
    /\ tasks = NoTasks

SpecRRF == InitRRF /\ [][Fuse]_vars

InitHash ==
    /\ rrfPc = "off"
    /\ rrfLists = <<>>
    /\ rrfK = 0
    /\ rrfOut = <<>>
    /\ hmHashes \in [URLS -> {None} \cup Digests]
    /\ hmCall = <<>>
    /\ sitemap = <<>>
    /\ site = NoSite
    /\ hashStore = NoHashes
    /\ crawl = Idle
    /\ vectorDisk = NoVectorDisk
    /\ bm25Disk = NoBm25Disk
    /\ rag = NoRag
    /\ started = FALSE
    /\ faults = FALSE
    /\ last = [op |-> "none"]
    /\ ans = NoAnswer
    /\ tasks = NoTasks

HmNext == \E url \in URLS, v \in Versions : HasChanged(url, BodyText(v))

SpecHash == InitHash /\ [][HmNext]_vars

CrawlNext ==
    \/ \E max_links \in 0..MaxLinksBound, sitemap_ok \in BOOLEAN : CrawlBegin(max_links, sitemap_ok)
    \/ CrawlIter
    \/ CrawlEnd

InitCrawl ==
    /\ rrfPc = "off"
    /\ rrfLists = <<>>
    /\ rrfK = 0
    /\ rrfOut = <<>>
    /\ hmHashes = NoHashes
    /\ hmCall = <<>>
    /\ sitemap \in Sitemaps
    /\ site \in [URLS -> Served]
    /\ hashStore \in [URLS -> {None, Md5(BodyText("v2"))}]
    /\ crawl = Idle
    /\ vectorDisk = NoVectorDisk
    /\ bm25Disk = NoBm25Disk
    /\ rag = NoRag
    /\ started = FALSE
    /\ faults = FALSE
    /\ last = [op |-> "none"]
    /\ ans = NoAnswer
    /\ tasks = NoTasks

SpecCrawl == InitCrawl /\ [][CrawlNext]_vars

\* parse_sitemap is one synchronous call: once it runs, its loop goes on to
\* the next iteration and to the return
SpecCrawlRuns == SpecCrawl /\ WF_vars(CrawlIter) /\ WF_vars(CrawlEnd)

InitAnswer ==
    /\ rrfPc = "off"
    /\ rrfLists = <<>>
    /\ rrfK = 0
    /\ rrfOut = <<>>
    /\ hmHashes = NoHashes
    /\ hmCall = <<>>
    /\ sitemap = <<>>
    /\ site = NoSite
    /\ hashStore = NoHashes
    /\ crawl = Idle
    /\ vectorDisk = NoVectorDisk
    /\ bm25Disk = NoBm25Disk
    /\ rag = NoRag
    /\ started = FALSE
    /\ faults = FALSE
    /\ last = [op |-> "none"]
    /\ ans \in [pc : {"in"}, relevant : SeqsUpTo(AnsDocs, MaxRelevant),
                corpus : SeqsUpTo(AnsDocs, MaxBm25Corpus), use_reranker : BOOLEAN]
    /\ tasks = NoTasks

SpecAnswer == InitAnswer /\ [][GetAnswer]_vars

\* the data directory before the first start: empty, or as an earlier build
\* of page u1 left it
SeedDocs == <<Chunk("u1", "v2")>>

SeedHashes == [NoHashes EXCEPT !["u1"] = Md5(BodyText("v2"))]

Init ==
    /\ rrfPc = "off"
    /\ rrfLists = <<>>
    /\ rrfK = 0
    /\ rrfOut = <<>>
    /\ hmHashes = NoHashes
    /\ hmCall = <<>>
    /\ sitemap = SiteSitemap
    /\ site \in {pages \in [URLS -> SiteServed] : \A u \in URLS \ SiteUrls : pages[u] = "fail"}
    /\ crawl = Idle
    /\ \E seeded \in BOOLEAN :
          /\ vectorDisk = IF seeded THEN [exists |-> TRUE, docs |-> SeedDocs] ELSE NoVectorDisk
          /\ bm25Disk = IF seeded THEN [state |-> "ok", rows |-> DocsToRows(SeedDocs)]
                        ELSE NoBm25Disk
          /\ hashStore = IF seeded THEN SeedHashes ELSE NoHashes
    /\ rag = NoRag
    /\ started = FALSE
    /\ faults = FALSE
    /\ last = [op |-> "none"]
    /\ ans = NoAnswer
    /\ tasks = NoTasks

Next ==
    \/ Main
    \/ Restart
    \/ \E max_links \in {1, DEFAULT_UPDATE_MAX_LINKS}, disc \in Discovery,
          fetched \in SiteAfter(site) :
          UpdateCommand(max_links, disc[1], disc[2], fetched)
    \/ \E url \in SiteUrls, served \in SiteServed : SiteChange(url, served)
    \/ \E what \in {"vector", "bm25", "corrupt"} : StoreFault(what)

Spec == Init /\ [][Next]_vars

\* the bot after main() ran on the data directory of Init: the loaded
\* instance, or none when the directory was empty
InitUpdates ==
    /\ rrfPc = "off"
    /\ rrfLists = <<>>
    /\ rrfK = 0
    /\ rrfOut = <<>>
    /\ hmHashes = NoHashes
    /\ hmCall = <<>>
    /\ sitemap = SiteSitemap
    /\ site \in {pages \in [URLS -> SiteServed] : \A u \in URLS \ SiteUrls : pages[u] = "fail"}
    /\ crawl = Idle
    /\ \E seeded \in BOOLEAN :
          /\ vectorDisk = IF seeded THEN [exists |-> TRUE, docs |-> SeedDocs] ELSE NoVectorDisk
          /\ bm25Disk = IF seeded THEN [state |-> "ok", rows |-> DocsToRows(SeedDocs)]
                        ELSE NoBm25Disk
          /\ hashStore = IF seeded THEN SeedHashes ELSE NoHashes
          /\ rag = IF seeded
                   THEN [ok |-> TRUE, has_vs |-> TRUE, vector_store |-> SeedDocs,
                         bm25_docs |-> SeedDocs]
                   ELSE NoRag
    /\ started = TRUE
    /\ faults = FALSE
    /\ last = [op |-> "none"]
    /\ ans = NoAnswer
    /\ tasks = NoTasks

UpdatesNext ==
    \/ \E max_links \in {1, DEFAULT_UPDATE_MAX_LINKS} : UpdateReceived(max_links)
    \/ \E t \in 1..MaxUpdates, disc \in Discovery : UpdateCrawl(t, disc[1], disc[2])
    \/ \E t \in 1..MaxUpdates, fetched \in SiteAfter(site) : UpdateIndex(t, fetched)

SpecUpdates == InitUpdates /\ [][UpdatesNext]_vars

=============================================================================
